---------------------------- MODULE Spec2Model ----------------------------
(***************************************************************************)
(* Model of streamtotext/audio.py: the chunk algebra (chunk_sample_cnt,    *)
(* merge_chunks, split_chunk), the re-windowing iterator                   *)
(* (EvenChunkIterator), the squelch detector (SquelchedSource) with its    *)
(* lifecycle and its calibration (detect_squelch_level), the scopes opened *)
(* with listen() and AudioPlayer.play over the detector.                   *)
(*                                                                         *)
(* Representation of `bytes` / `memoryview`: a byte string is kept in      *)
(* run-length form, a sequence of runs <<value, count>> with count >= 1    *)
(* and no two adjacent runs of the same value.  The form is canonical, so  *)
(* two byte strings are equal iff their run sequences are equal.  len(),   *)
(* b''.join() and slicing are modelled on this form by BytesLen, BytesCat  *)
(* and PySliceTo / PySliceFrom, which follow Python's slice rules          *)
(* (negative indices count from the end, indices are clamped, -0 is 0).    *)
(*                                                                         *)
(* Python's None is modelled by the empty sequence <<>> and a present      *)
(* value v by the one-element sequence <<v>>.                              *)
(***************************************************************************)
EXTENDS Integers, Sequences, FiniteSets, TLC

VARIABLES
    \* ---- chunk algebra exerciser (split_chunk / merge_chunks as pure functions)
    alg_chunk,        \* the chunk handed to split_chunk
    alg_offset,       \* the sample_offset handed to split_chunk
    alg_pc,           \* "ready" | "split" | "merged"
    alg_split,        \* <<>> or the pair returned by split_chunk
    alg_merged,       \* <<>> or <<merge_chunks(pair)>>
    alg_exc,          \* "none", or the exception split_chunk ended with
    \* ---- the source below the iterator (an iterator of AudioChunk)
    src_width,        \* bytes per sample of every chunk of the source
    src_fill,         \* "ids": byte k of the stream has value k; "const": chunk k is filled with k
    src_sizes,        \* the sample counts the source may yield
    src_cnt,          \* chunks yielded so far
    src_bytes,        \* bytes yielded so far
    src_done,         \* the source has signalled exhaustion
    src_hist,         \* history: the chunks yielded, in order
    \* ---- EvenChunkIterator
    chunk_size,       \* self._chunk_size
    cur_chunk,        \* self._cur_chunk
    ev_hist,          \* history: one record per completed __next__ call
    \* ---- SquelchedSource (an AudioSourceProcessor over the source)
    squelch_level,    \* self.squelch_level: <<>> (None) or <<level>>
    squelch_triggered,\* self._squelch_triggered
    recent_chunks,    \* self._recent_chunks, a deque(maxlen=prefix_samples)
    prefix_samples,   \* self._prefix_samples
    running,          \* self.running of the detector
    src_running,      \* self.running of the inner source
    src_starts,       \* calls of the inner source's start()
    src_stops,        \* calls of the inner source's stop()
    life_calls,       \* start()/stop() calls made on the detector
    life_ret,         \* the last start()/stop() call and how it ended
    gc_pc,            \* "idle": no get_chunk call in progress; "loop": one is, between iterations
    gc_pulls,         \* iterations of the current (or last) get_chunk call
    gc_chunk,         \* <<>> or the chunk pulled by the last iteration
    gc_ret,           \* how the last finished get_chunk call ended
    even_cnt,         \* history: chunks get_chunk has pulled from self._even_iter
    out_idx,          \* history: the stream indices of the chunks get_chunk returned, in order
    \* ---- configuration
    sample_size,      \* self._sample_size of the detector
    src_openable,     \* the inner source's start() can open its stream
    \* ---- SquelchedSource.detect_squelch_level
    cal_pc,           \* "idle" | "body": inside `async with self._source.listen()`
    cal_cur,          \* _cur_chunk of the call's own EvenChunkIterator
    cal_chunks,       \* audio_chunks
    cal_threshold,    \* the threshold argument, <<numerator, denominator>>
    cal_ret,          \* how the last finished call ended
    cal_cnt,          \* calls made
    \* ---- listen() scopes and AudioPlayer.play over the detector
    scope,            \* history: the current or last scope opened with listen()
    play_pc,          \* "idle" | "body": inside `async with self._source.listen()`
    play_ret          \* how the last finished play() call ended

alg_vars == <<alg_chunk, alg_offset, alg_pc, alg_split, alg_merged, alg_exc>>
src_vars == <<src_width, src_fill, src_sizes, src_cnt, src_bytes, src_done, src_hist>>
ev_vars  == <<chunk_size, cur_chunk, ev_hist>>
det_vars == <<squelch_level, squelch_triggered, recent_chunks, prefix_samples,
              running, src_running, src_starts, src_stops, life_calls, life_ret,
              gc_pc, gc_pulls, gc_chunk, gc_ret, even_cnt, out_idx>>
cfg_vars == <<sample_size, src_openable>>
cal_vars == <<cal_pc, cal_cur, cal_chunks, cal_threshold, cal_ret, cal_cnt>>
scope_vars == <<scope, play_pc, play_ret>>
vars     == <<alg_vars, src_vars, ev_vars, det_vars, cfg_vars, cal_vars, scope_vars>>

----------------------------------------------------------------------------
(* Bounds of the model *)

MaxSamples   == 3   \* largest sample count of a source chunk (small profile)
MaxChunkSize == 3   \* largest chunk_size of the iterator (small profile)
MaxSrcChunks == 3   \* chunks a source yields before the model stops it
MaxPulls     == 4   \* __next__ calls on one iterator
MaxPrefix    == 4   \* largest prefix_samples of a detector
MaxEven      == 6   \* chunks a detector pulls from its iterator
MaxLifeCalls == 2   \* start()/stop() calls on a detector
MaxCalCalls  == 1   \* detect_squelch_level calls on a detector
MaxCalChunks == 5   \* chunks a source yields to detect_squelch_level calls

(* Program constants *)

MicRate         == 16000  \* Microphone rate
WaveChunkFrames == 1000   \* WaveSource chunk_frames
EvenChunkSize   == 1600   \* chunk_size of SquelchedSource._even_iter
DefaultPrefix   == 2      \* default prefix_samples of SquelchedSource
SampleWidth     == 2      \* SquelchedSource._sample_width, Microphone's width

Widths == {1, 2}

Min(a, b) == IF a < b THEN a ELSE b
Max(a, b) == IF a < b THEN b ELSE a

SeqsUpTo(S, n) == UNION {[1..k -> S] : k \in 0..n}

----------------------------------------------------------------------------
(* bytes / memoryview *)

RECURSIVE BytesLen(_)
BytesLen(a) == IF a = <<>> THEN 0 ELSE a[1][2] + BytesLen(Tail(a))

\* a + b
BytesCat(a, b) ==
    IF a = <<>> THEN b
    ELSE IF b = <<>> THEN a
    ELSE IF a[Len(a)][1] = b[1][1]
         THEN SubSeq(a, 1, Len(a) - 1)
                  \o <<<<b[1][1], a[Len(a)][2] + b[1][2]>>>>
                  \o Tail(b)
         ELSE a \o b

\* the first k bytes, 0 <= k <= len
RECURSIVE BytesTake(_, _)
BytesTake(a, k) ==
    IF k <= 0 \/ a = <<>> THEN <<>>
    ELSE IF a[1][2] <= k
         THEN BytesCat(<<a[1]>>, BytesTake(Tail(a), k - a[1][2]))
         ELSE <<<<a[1][1], k>>>>

\* all but the first k bytes, 0 <= k <= len
RECURSIVE BytesDrop(_, _)
BytesDrop(a, k) ==
    IF k <= 0 \/ a = <<>> THEN a
    ELSE IF a[1][2] <= k
         THEN BytesDrop(Tail(a), k - a[1][2])
         ELSE <<<<a[1][1], a[1][2] - k>>>> \o Tail(a)

\* a slice index as Python normalises it for a sequence of length n
PyIndex(i, n) == IF i < 0 THEN Max(i + n, 0) ELSE Min(i, n)

\* a[:stop]
PySliceTo(a, stop) == BytesTake(a, PyIndex(stop, BytesLen(a)))

\* a[start:]
PySliceFrom(a, start) == BytesDrop(a, PyIndex(start, BytesLen(a)))

\* the byte at 1-based position p
RECURSIVE ByteAt(_, _)
ByteAt(a, p) == IF p <= a[1][2] THEN a[1][1] ELSE ByteAt(Tail(a), p - a[1][2])

----------------------------------------------------------------------------
(* AudioChunk and the chunk algebra *)

AudioChunk(start_time, audio, width, freq) ==
    [start_time |-> start_time, audio |-> audio, width |-> width, freq |-> freq]

chunk_sample_cnt(chunk) == BytesLen(chunk.audio) \div chunk.width

RECURSIVE JoinAudio(_)
JoinAudio(chunks) ==
    IF chunks = <<>> THEN <<>>
    ELSE BytesCat(chunks[1].audio, JoinAudio(Tail(chunks)))

\* the caller passes a non-empty sequence (assert(len(chunks) > 0))
merge_chunks(chunks) ==
    AudioChunk(chunks[1].start_time, JoinAudio(chunks),
               chunks[1].width, chunks[1].freq)

\* a plausible slip: the offset is taken as a byte count
split_offset_bytes(chunk, sample_offset) == sample_offset

split_offset(chunk, sample_offset) == sample_offset * chunk.width

split_chunk(chunk, sample_offset) ==
    LET offset       == split_offset(chunk, sample_offset)
        first_audio  == PySliceTo(chunk.audio, -offset)
        second_audio == PySliceFrom(chunk.audio, offset)
    IN  << AudioChunk(chunk.start_time, first_audio, chunk.width, chunk.freq),
           AudioChunk(chunk.start_time, second_audio, chunk.width, chunk.freq) >>


----------------------------------------------------------------------------
(* The chunk algebra as pure functions: one split, then one merge *)

\* the audio of a chunk whose bytes are numbered first+1 .. first+len
IdAudio(first, len) == [i \in 1..len |-> <<first + i, 1>>]

AlgChunks ==
    {AudioChunk(t, IdAudio(0, n * w), w, MicRate) :
        t \in {0}, n \in 0..MaxSamples, w \in Widths}

AlgOffsets == (0 - 1)..(MaxSamples + 1)

\* the values the variables of a component hold while a specification leaves it alone
AlgIdle ==
    /\ alg_chunk = AudioChunk(0, <<>>, 1, MicRate)
    /\ alg_offset = 0
    /\ alg_pc = "off"
    /\ alg_split = <<>>
    /\ alg_merged = <<>>
    /\ alg_exc = "none"

alg_do_split ==
    /\ alg_pc = "ready"
    /\ alg_split' = split_chunk(alg_chunk, alg_offset)
    /\ alg_exc' = "none"      \* split_chunk has no failing path
    /\ alg_pc' = "split"
    /\ UNCHANGED <<alg_chunk, alg_offset, alg_merged, src_vars, ev_vars, det_vars,
                   cfg_vars, cal_vars, scope_vars>>

alg_do_merge ==
    /\ alg_pc = "split"
    /\ alg_merged' = <<merge_chunks(alg_split)>>
    /\ alg_pc' = "merged"
    /\ UNCHANGED <<alg_chunk, alg_offset, alg_split, alg_exc, src_vars, ev_vars,
                   det_vars, cfg_vars, cal_vars, scope_vars>>

----------------------------------------------------------------------------
(* The source below the iterator: it yields chunks of one format, of sizes  *)
(* drawn from src_sizes, and may signal exhaustion at any pull; once it has *)
(* done so it does so at every later pull.                                  *)

SourceAudio(fill, k, first, len) ==
    IF fill = "ids" THEN IdAudio(first, len)
    ELSE IF len = 0 THEN <<>> ELSE <<<<k, len>>>>

\* the chunks the source yields for the sample counts `sizes`, after it has
\* yielded cnt chunks and bytes bytes
RECURSIVE SourceChunks(_, _, _)
SourceChunks(sizes, cnt, bytes) ==
    IF sizes = <<>> THEN <<>>
    ELSE LET len == sizes[1] * src_width
         IN  <<AudioChunk(cnt + 1,
                          SourceAudio(src_fill, cnt + 1, bytes, len),
                          src_width, MicRate)>>
             \o SourceChunks(Tail(sizes), cnt + 1, bytes + len)

SrcIdle ==
    /\ src_width = 1
    /\ src_fill = "const"
    /\ src_sizes = {}
    /\ src_cnt = 0
    /\ src_bytes = 0
    /\ src_done = FALSE
    /\ src_hist = <<>>

----------------------------------------------------------------------------
(* EvenChunkIterator *)

\* the outcome of a call, with what it left unpulled and whether the
\* source signalled exhaustion during it
Outcome(o, rest, ended) ==
    [exc |-> o.exc, ret |-> o.ret, cur_chunk |-> o.cur_chunk,
     rest |-> rest, ended |-> ended]

\* a plausible slip: at exhaustion the partial accumulation is flushed as a
\* short last chunk
on_exhausted_flush(sample_queue) ==
    IF sample_queue = <<>>
    THEN [exc |-> "StopIteration", ret |-> <<>>, cur_chunk |-> <<>>]
    ELSE [exc |-> "none", ret |-> <<merge_chunks(sample_queue)>>,
          cur_chunk |-> <<>>]

\* next(self._iterator) raised: the exception leaves __next__; sample_queue
\* is a local and goes with the frame, self._cur_chunk is None at this point
on_exhausted(sample_queue) ==
    [exc |-> "StopIteration", ret |-> <<>>, cur_chunk |-> <<>>]

\* The loop of __next__ from the state (sample_queue, ret_chunk_size,
\* self._cur_chunk), with inp the chunks the source yields from here on;
\* when inp runs out the source signals exhaustion.
RECURSIVE even_loop(_, _, _, _, _)
even_loop(cs, sample_queue, ret_chunk_size, cur, inp) ==
    IF ~(ret_chunk_size < cs)
    THEN Outcome([exc |-> "none", ret |-> <<merge_chunks(sample_queue)>>,
                  cur_chunk |-> cur], inp, FALSE)
    ELSE IF cur = <<>> /\ inp = <<>>
    THEN Outcome(on_exhausted(sample_queue), <<>>, TRUE)
    ELSE LET chunk          == IF cur # <<>> THEN cur[1] ELSE inp[1]
             inp2           == IF cur # <<>> THEN inp ELSE Tail(inp)
             cur_chunk_size == chunk_sample_cnt(chunk)
             total          == ret_chunk_size + cur_chunk_size
         IN  IF total < cs
             THEN even_loop(cs, Append(sample_queue, chunk), total, <<>>, inp2)
             ELSE IF total = cs
             THEN even_loop(cs, Append(sample_queue, chunk), total, <<>>, inp2)
             ELSE LET overshoot == total - cs
                      parts     == split_chunk(chunk, overshoot)
                  IN  even_loop(cs, Append(sample_queue, parts[1]), total,
                                <<parts[2]>>, inp2)

even_next(cs, cur, inp) == even_loop(cs, <<>>, 0, cur, inp)

EvIdle ==
    /\ chunk_size = 1
    /\ cur_chunk = <<>>
    /\ ev_hist = <<>>

\* One call of EvenChunkIterator.__next__ over a source that yields the
\* chunks of `sizes` during the call (and then, if the call asks for one
\* more, signals exhaustion).
next_chunk ==
    /\ Len(ev_hist) < MaxPulls
    /\ \E sizes \in SeqsUpTo(src_sizes, Max(MaxChunkSize, 2)) :
         LET inp == SourceChunks(sizes, src_cnt, src_bytes)
             r   == even_next(chunk_size, cur_chunk, inp)
         IN  /\ src_done => sizes = <<>>
             /\ src_cnt + Len(sizes) <= MaxSrcChunks
             /\ r.rest = <<>>
             /\ cur_chunk' = r.cur_chunk
             /\ src_cnt' = src_cnt + Len(sizes)
             /\ src_bytes' = src_bytes + BytesLen(JoinAudio(inp))
             /\ src_done' = (src_done \/ r.ended)
             /\ src_hist' = src_hist \o inp
             /\ ev_hist' = Append(ev_hist,
                                  [exc |-> r.exc, ret |-> r.ret,
                                   carry |-> r.cur_chunk,
                                   had_carry |-> cur_chunk # <<>>,
                                   pulled |-> Len(sizes)])
    /\ UNCHANGED <<alg_vars, src_width, src_fill, src_sizes, chunk_size, det_vars,
                   cfg_vars, cal_vars, scope_vars>>

----------------------------------------------------------------------------
(* audioop.rms(fragment, width): the integer part of the square root of    *)
(* the mean of the squares of the signed little-endian samples; 0 for an   *)
(* empty fragment.                                                          *)

Sq(x) == x * x

Sample1(b) == IF b >= 128 THEN b - 256 ELSE b

Sample2(lo, hi) ==
    IF hi >= 128 THEN lo + 256 * hi - 65536 ELSE lo + 256 * hi

\* the sum of the squares of the samples of a byte string of whole samples
RECURSIVE SumSquares(_, _)
SumSquares(a, width) ==
    IF a = <<>> THEN 0
    ELSE LET v == a[1][1]
             n == a[1][2]
         IN  IF width = 1
             THEN n * Sq(Sample1(v)) + SumSquares(Tail(a), width)
             ELSE IF n >= 2
             THEN (n \div 2) * Sq(Sample2(v, v))
                     + SumSquares(BytesDrop(a, 2 * (n \div 2)), width)
             ELSE Sq(Sample2(v, a[2][1])) + SumSquares(BytesDrop(a, 2), width)

\* the integer square root of x, by bisection of lo..hi with lo^2 <= x < hi^2
RECURSIVE IsqrtIn(_, _, _)
IsqrtIn(x, lo, hi) ==
    IF hi - lo <= 1 THEN lo
    ELSE LET mid == (lo + hi) \div 2
         IN  IF mid * mid <= x THEN IsqrtIn(x, mid, hi) ELSE IsqrtIn(x, lo, mid)

Isqrt(x) == IsqrtIn(x, 0, 32769)

Rms(audio, width) ==
    IF BytesLen(audio) = 0 THEN 0
    ELSE Isqrt(SumSquares(audio, width) \div (BytesLen(audio) \div width))

----------------------------------------------------------------------------
(* SquelchedSource *)

\* the end-of-stream signal of a raw source's get_chunk
source_eos == "NoMoreChunksError"

\* AudioSourceChunkIterator.__anext__: what leaves it when the get_chunk it
\* awaits raises exc
chunks_anext_exc(exc) ==
    IF exc = "NoMoreChunksError" THEN "StopAsyncIteration" ELSE exc

\* __anext__ is __next__ with `await self._iterator.__anext__()` in place of
\* next(self._iterator): the iterator is the source's .chunks, and what it
\* raises at the end of the stream leaves __anext__
even_anext(cs, cur, inp) ==
    LET r == even_loop(cs, <<>>, 0, cur, inp)
    IN  [r EXCEPT !.exc = IF @ = "StopIteration"
                          THEN chunks_anext_exc(source_eos) ELSE @]

\* collections.deque(maxlen=maxlen).append(x)
deque_append(q, x, maxlen) ==
    IF maxlen = 0 THEN q
    ELSE IF Len(q) < maxlen THEN Append(q, x)
    ELSE Append(Tail(q), x)

rms_vals(chunks) ==
    [i \in 1..Len(chunks) |-> Rms(chunks[i].audio, chunks[i].width)]

\* sorted(rms_vals)[int(len(rms_vals) * .5)]
median_of(vals) ==
    SortSeq(vals, LAMBDA a, b : a < b)[(Len(vals) \div 2) + 1]

\* a plausible slip: the exit test includes the threshold
below_exit_le(median_rms, level) == 10 * median_rms <= 8 * level

\* median_rms < level * .8, for an integer median_rms and an integer level
\* (the product by the double .8 is exact to the integer grid: it cannot
\* move across median_rms)
below_exit(median_rms, level) == 10 * median_rms < 8 * level

\* a plausible slip: one threshold for both directions (no hysteresis)
check_squelch_one_threshold(level, is_triggered, chunks) ==
    median_of(rms_vals(chunks)) > level

\* self.squelch_level is the level handed in (get_chunk passes it)
check_squelch(level, is_triggered, chunks) ==
    LET median_rms == median_of(rms_vals(chunks))
    IN  IF is_triggered
        THEN IF below_exit(median_rms, level) THEN FALSE ELSE TRUE
        ELSE IF median_rms > level THEN TRUE ELSE FALSE

\* a plausible slip: the trigger returns only the chunk just pulled
trigger_output_last(recent, chunk) == chunk

\* what get_chunk returns on the iteration that triggers
trigger_output(recent, chunk) == merge_chunks(recent)

\* a plausible slip: an Active round returns the lookback buffer too
active_output_merged(recent, chunk) == merge_chunks(recent)

\* what get_chunk returns on a round that stays Active
active_output(recent, chunk) == chunk

\* the chunks a source yields for the shapes <<sample count, byte value>>,
\* after it has yielded cnt chunks: chunk k is filled with its byte value
RECURSIVE AmpChunks(_, _)
AmpChunks(shapes, cnt) ==
    IF shapes = <<>> THEN <<>>
    ELSE <<AudioChunk(cnt + 1,
                      <<<<shapes[1][2], shapes[1][1] * src_width>>>>,
                      src_width, MicRate)>>
         \o AmpChunks(Tail(shapes), cnt + 1)

\* byte values of the source's chunks and configured levels: with width 1
\* the RMS of a chunk filled with v is v, with width 2 it is 257 * v
SrcAmps(w) == IF w = 1 THEN {2, 8, 10, 12} ELSE {1, 3, 4}
SquelchLevels(w) == IF w = 1 THEN {10} ELSE {771}

\* chunks that are not a whole window come only in the lowest and the
\* highest amplitude
EdgeAmps(w) == IF w = 1 THEN {2, 12} ELSE {1, 4}

\* the highest amplitude
TopAmps(w) == IF w = 1 THEN {12} ELSE {4}

\* a "flat" source yields only the lowest and the highest amplitude, a
\* "loud" source only the highest
SrcShapes ==
    {sh \in src_sizes \X SrcAmps(src_width) :
        /\ sh[1] = EvenChunkSize \/ sh[2] \in EdgeAmps(src_width)
        /\ src_fill = "flat" => sh[2] \in EdgeAmps(src_width)
        /\ src_fill = "loud" => sh[2] \in TopAmps(src_width)}

\* the stream indices of the chunks in the lookback buffer
RecentIdx(cnt, len) == [i \in 1..len |-> cnt - len + i]

\* One iteration of the `while True` loop of get_chunk (a call begins with
\* its first iteration): the pull from self._even_iter, which pulls the
\* chunks of `shapes` from the source, the append to the lookback buffer,
\* check_squelch and the return or the next round.
get_chunk ==
    /\ even_cnt < MaxEven
    /\ \E shapes \in SeqsUpTo(SrcShapes, 2) :
         LET inp == AmpChunks(shapes, src_cnt)
             r   == even_anext(chunk_size, cur_chunk, inp)
         IN  /\ src_done => shapes = <<>>
             /\ r.rest = <<>>
             /\ cur_chunk' = r.cur_chunk
             /\ src_cnt' = src_cnt + Len(shapes)
             /\ src_bytes' = src_bytes + BytesLen(JoinAudio(inp))
             /\ src_done' = (src_done \/ r.ended)
             /\ gc_pulls' = IF gc_pc = "idle" THEN 1 ELSE gc_pulls + 1
             /\ IF r.exc # "none"
                THEN \* the exception of __anext__ leaves get_chunk
                     /\ gc_pc' = "idle"
                     /\ gc_ret' = [exc |-> r.exc, ret |-> <<>>]
                     /\ gc_chunk' = <<>>
                     /\ UNCHANGED <<recent_chunks, squelch_triggered,
                                    even_cnt, out_idx>>
                ELSE LET chunk  == r.ret[1]
                         recent == deque_append(recent_chunks, chunk,
                                                prefix_samples)
                     IN  /\ recent_chunks' = recent
                         /\ gc_chunk' = <<chunk>>
                         /\ even_cnt' = even_cnt + 1
                         /\ IF squelch_level = <<>>
                            THEN \* the comparison with None raises
                                 /\ gc_pc' = "idle"
                                 /\ gc_ret' = [exc |-> "TypeError", ret |-> <<>>]
                                 /\ UNCHANGED <<squelch_triggered, out_idx>>
                            ELSE LET was_triggered == squelch_triggered
                                     now == check_squelch(squelch_level[1],
                                                          squelch_triggered,
                                                          recent)
                                 IN  /\ squelch_triggered' = now
                                     /\ IF now
                                        THEN /\ gc_pc' = "idle"
                                             /\ gc_ret' =
                                                  [exc |-> "none",
                                                   ret |-> << IF ~was_triggered
                                                              THEN trigger_output(recent, chunk)
                                                              ELSE active_output(recent, chunk) >>]
                                             /\ out_idx' = out_idx \o
                                                  (IF ~was_triggered
                                                   THEN RecentIdx(even_cnt + 1, Len(recent))
                                                   ELSE <<even_cnt + 1>>)
                                        ELSE /\ gc_pc' = "loop"
                                             /\ UNCHANGED <<gc_ret, out_idx>>
    /\ UNCHANGED <<alg_vars, src_width, src_fill, src_sizes, src_hist,
                   chunk_size, ev_hist, squelch_level, prefix_samples,
                   running, src_running, src_starts, src_stops,
                   life_calls, life_ret, cfg_vars, cal_vars, scope_vars>>

\* a plausible slip: the assert is gone (as under python -O)
start_precondition_off == TRUE

\* assert(self.squelch_level is not None)
start_precondition == squelch_level # <<>>

\* how the inner source's start() ends: it marks itself running and then
\* opens its stream (WaveSource.start: wave.open), which may fail
inner_start_exc == IF src_openable THEN "none" ELSE "OSError"

\* how SquelchedSource.start ends
start_exc == IF ~start_precondition THEN "AssertionError" ELSE inner_start_exc

\* SquelchedSource.start -> AudioSourceProcessor.start -> AudioSource.start,
\* then the inner source's start
start ==
    /\ life_calls < MaxLifeCalls
    /\ life_calls' = life_calls + 1
    /\ life_ret' = [op |-> "start", exc |-> start_exc]
    /\ IF ~start_precondition
       THEN UNCHANGED <<running, src_running, src_starts>>
       ELSE /\ running' = TRUE
            /\ src_running' = TRUE
            /\ src_starts' = src_starts + 1
    /\ UNCHANGED <<alg_vars, src_width, src_fill, src_sizes, src_cnt, src_bytes,
                   src_done, src_hist, ev_vars, squelch_level,
                   squelch_triggered, recent_chunks, prefix_samples, src_stops,
                   gc_pc, gc_pulls, gc_chunk, gc_ret, even_cnt, out_idx,
                   cfg_vars, cal_vars, scope_vars>>

\* AudioSourceProcessor.stop: the inner source's stop, then AudioSource.stop
stop ==
    /\ life_calls < MaxLifeCalls
    /\ life_calls' = life_calls + 1
    /\ src_running' = FALSE
    /\ src_stops' = src_stops + 1
    /\ running' = FALSE
    /\ life_ret' = [op |-> "stop", exc |-> "none"]
    /\ UNCHANGED <<alg_vars, src_width, src_fill, src_sizes, src_cnt, src_bytes,
                   src_done, src_hist, ev_vars, squelch_level,
                   squelch_triggered, recent_chunks, prefix_samples, src_starts,
                   gc_pc, gc_pulls, gc_chunk, gc_ret, even_cnt, out_idx,
                   cfg_vars, cal_vars, scope_vars>>

DetIdle ==
    /\ squelch_level = <<>>
    /\ squelch_triggered = FALSE
    /\ recent_chunks = <<>>
    /\ prefix_samples = DefaultPrefix
    /\ running = FALSE
    /\ src_running = FALSE
    /\ src_starts = 0
    /\ src_stops = 0
    /\ life_calls = 0
    /\ life_ret = [op |-> "none", exc |-> "none"]
    /\ gc_pc = "idle"
    /\ gc_pulls = 0
    /\ gc_chunk = <<>>
    /\ gc_ret = [exc |-> "none", ret |-> <<>>]
    /\ even_cnt = 0
    /\ out_idx = <<>>

----------------------------------------------------------------------------
(* listen(): `async with source.listen()` awaits __aenter__, which awaits   *)
(* source.start(); if that raises, the statement is left with the exception *)
(* and __aexit__ is not run.  Otherwise the body runs, and however it is    *)
(* left __aexit__ is awaited once, with the exception if there is one;      *)
(* __aexit__ returns None, so the exception goes on.                        *)

\* how a body is left: it runs to its end, the stream ends, a pull or a
\* write raises, or the task is cancelled at an await
ExitKinds == {"return", "eos", "error", "cancelled"}

exit_exc(kind) ==
    IF kind = "error" THEN "OSError"
    ELSE IF kind = "cancelled" THEN "CancelledError"
    ELSE "none"

\* a plausible slip: the source is stopped only when the body ends well
aexit_stops_on_success(kind) == exit_exc(kind) = "none"

\* __aexit__(self, *args): await self._source.stop(), whatever args are
aexit_stops(kind) == TRUE

NoScope == [owner |-> "none", entered |-> FALSE, stops |-> 0, exit |-> "none"]

ScopeIdle ==
    /\ scope = NoScope
    /\ play_pc = "idle"
    /\ play_ret = [exc |-> "none"]

----------------------------------------------------------------------------
(* SquelchedSource.detect_squelch_level *)

\* the default threshold, .8
DefaultThreshold == <<8, 10>>

\* the threshold arguments of the model, as <<numerator, denominator>>: a
\* "loud" source is calibrated with the default only
Thresholds ==
    IF src_fill = "loud" THEN {DefaultThreshold}
    ELSE {<<0, 10>>, <<5, 10>>, DefaultThreshold, <<10, 10>>}

\* sample values of the chunks of a "tone" source
ToneAmps == {10, 20, 30, 40, 50}

\* the chunks a "tone" source yields for the shapes <<sample count, sample
\* value>>: every sample of chunk k has its sample value (little-endian)
ToneAudio(n, v, width) ==
    IF width = 1 THEN (IF n = 0 THEN <<>> ELSE <<<<v, n>>>>)
    ELSE [i \in 1..(2 * n) |-> IF i % 2 = 1 THEN <<v, 1>> ELSE <<0, 1>>]

RECURSIVE ToneChunks(_, _)
ToneChunks(shapes, cnt) ==
    IF shapes = <<>> THEN <<>>
    ELSE <<AudioChunk(cnt + 1, ToneAudio(shapes[1][1], shapes[1][2], src_width),
                      src_width, MicRate)>>
         \o ToneChunks(Tail(shapes), cnt + 1)

\* the sample values of the chunks the source has yielded
YieldedAmps == {src_hist[i].audio[1][1] : i \in 1..Len(src_hist)}

\* a "tone" source yields no sample value twice
CalShapes ==
    IF src_fill = "tone" THEN src_sizes \X (ToneAmps \ YieldedAmps)
    ELSE SrcShapes

CalSourceChunks(shapes, cnt) ==
    IF src_fill = "tone" THEN ToneChunks(shapes, cnt) ELSE AmpChunks(shapes, cnt)

\* the chunks of audio_chunks that are measured
qualifying(chunks, size) ==
    SelectSeq(chunks, LAMBDA x : BytesLen(x.audio) = size * SampleWidth)

cal_rms_vals(chunks, size) ==
    LET q == qualifying(chunks, size)
    IN  [i \in 1..Len(q) |-> Rms(q[i].audio, SampleWidth)]

\* a plausible slip: the percentile is taken of the last index
rank_index_last(threshold, n) == (threshold[1] * (n - 1)) \div threshold[2]

\* int(threshold * len(rms_vals)), for a threshold >= 0
rank_index(threshold, n) == (threshold[1] * n) \div threshold[2]

\* sorted(rms_vals)[int(threshold * len(rms_vals)):][0]: <<>> stands for
\* the IndexError of [0] on an empty slice
level_of(vals, threshold) ==
    LET k == rank_index(threshold, Len(vals))
    IN  IF k >= Len(vals) THEN <<>>
        ELSE <<SortSeq(vals, LAMBDA a, b : a < b)[k + 1]>>

CalIdle ==
    /\ cal_pc = "idle"
    /\ cal_cur = <<>>
    /\ cal_chunks = <<>>
    /\ cal_threshold = <<0, 1>>
    /\ cal_ret = [exc |-> "none", level |-> <<>>]
    /\ cal_cnt = 0

\* the call up to the body of `async with self._source.listen()`: the
\* inner source's start() and the call's own EvenChunkIterator
cal_enter ==
    /\ cal_pc = "idle"
    /\ play_pc = "idle"
    /\ cal_cnt < MaxCalCalls
    /\ cal_cnt' = cal_cnt + 1
    /\ \E th \in Thresholds : cal_threshold' = th
    /\ src_starts' = src_starts + 1
    /\ src_running' = TRUE
    /\ cal_cur' = <<>>
    /\ cal_chunks' = <<>>
    /\ IF inner_start_exc = "none"
       THEN /\ cal_pc' = "body"
            /\ scope' = [owner |-> "cal", entered |-> TRUE, stops |-> 0,
                         exit |-> "none"]
            /\ UNCHANGED cal_ret
       ELSE /\ cal_pc' = "idle"
            /\ scope' = [owner |-> "cal", entered |-> FALSE, stops |-> 0,
                         exit |-> "none"]
            /\ cal_ret' = [exc |-> inner_start_exc, level |-> <<>>]
    /\ UNCHANGED <<alg_vars, src_width, src_fill, src_sizes, src_cnt, src_bytes,
                   src_done, src_hist, ev_vars, squelch_level,
                   squelch_triggered, recent_chunks, prefix_samples, running,
                   src_stops, life_calls, life_ret, gc_pc, gc_pulls, gc_chunk,
                   gc_ret, even_cnt, out_idx, cfg_vars, play_pc, play_ret>>

\* one round of `while time.time() < end_time` in which __anext__ returns a
\* chunk
cal_pull ==
    /\ cal_pc = "body"
    /\ Len(cal_chunks) < MaxCalChunks
    /\ \E shapes \in SeqsUpTo(CalShapes, 2) :
         LET inp == CalSourceChunks(shapes, src_cnt)
             r   == even_anext(sample_size, cal_cur, inp)
         IN  /\ src_done => shapes = <<>>
             /\ src_cnt + Len(shapes) <= MaxCalChunks
             /\ r.rest = <<>>
             /\ r.exc = "none"
             /\ cal_cur' = r.cur_chunk
             /\ cal_chunks' = Append(cal_chunks, r.ret[1])
             /\ src_cnt' = src_cnt + Len(shapes)
             /\ src_bytes' = src_bytes + BytesLen(JoinAudio(inp))
             /\ src_hist' = src_hist \o inp
    /\ UNCHANGED <<alg_vars, src_width, src_fill, src_sizes, src_done,
                   ev_vars, det_vars, cfg_vars, cal_pc, cal_threshold, cal_ret,
                   cal_cnt, scope_vars>>

\* the end of the body (the time is up, __anext__ raises StopAsyncIteration,
\* which is caught, or something else is raised), __aexit__, and, when no
\* exception is on its way, the measurement
cal_leave ==
    /\ cal_pc = "body"
    /\ \E kind \in ExitKinds, shapes \in SeqsUpTo(CalShapes, 1) :
         LET inp  == CalSourceChunks(shapes, src_cnt)
             r    == even_anext(sample_size, cal_cur, inp)
             vals == cal_rms_vals(cal_chunks, sample_size)
             lvl  == IF vals = <<>> THEN <<>> ELSE level_of(vals, cal_threshold)
         IN  /\ IF kind = "eos"
                THEN /\ src_done => shapes = <<>>
                     /\ src_cnt + Len(shapes) <= MaxCalChunks
                     /\ r.rest = <<>>
                     /\ r.exc = "StopAsyncIteration"
                     /\ src_done' = TRUE
                ELSE /\ shapes = <<>>
                     /\ UNCHANGED src_done
             /\ src_cnt' = src_cnt + Len(shapes)
             /\ src_bytes' = src_bytes + BytesLen(JoinAudio(inp))
             /\ src_hist' = src_hist \o inp
             /\ cal_cur' = IF kind = "eos" THEN r.cur_chunk ELSE cal_cur
             /\ IF aexit_stops(kind)
                THEN /\ src_running' = FALSE
                     /\ src_stops' = src_stops + 1
                     /\ scope' = [scope EXCEPT !.stops = @ + 1, !.exit = kind]
                ELSE /\ scope' = [scope EXCEPT !.exit = kind]
                     /\ UNCHANGED <<src_running, src_stops>>
             /\ IF exit_exc(kind) # "none"
                THEN /\ cal_ret' = [exc |-> exit_exc(kind), level |-> <<>>]
                     /\ UNCHANGED squelch_level
                ELSE IF lvl = <<>>
                THEN /\ cal_ret' = [exc |-> "IndexError", level |-> <<>>]
                     /\ UNCHANGED squelch_level
                ELSE /\ cal_ret' = [exc |-> "none", level |-> lvl]
                     /\ squelch_level' = lvl
    /\ cal_pc' = "idle"
    /\ UNCHANGED <<alg_vars, src_width, src_fill, src_sizes, ev_vars,
                   squelch_triggered, recent_chunks, prefix_samples, running,
                   src_starts, life_calls, life_ret, gc_pc, gc_pulls, gc_chunk,
                   gc_ret, even_cnt, out_idx, cfg_vars, cal_chunks,
                   cal_threshold, cal_cnt, play_pc, play_ret>>

----------------------------------------------------------------------------
(* AudioPlayer.play over the detector *)

\* play() up to the body of `async with self._source.listen()`: the
\* detector's start()
play_enter ==
    /\ play_pc = "idle"
    /\ cal_pc = "idle"
    /\ gc_pc = "idle"
    /\ life_calls + 1 < MaxLifeCalls
    /\ life_calls' = life_calls + 1
    /\ life_ret' = [op |-> "start", exc |-> start_exc]
    /\ IF ~start_precondition
       THEN UNCHANGED <<running, src_running, src_starts>>
       ELSE /\ running' = TRUE
            /\ src_running' = TRUE
            /\ src_starts' = src_starts + 1
    /\ IF start_exc = "none"
       THEN /\ play_pc' = "body"
            /\ scope' = [owner |-> "play", entered |-> TRUE, stops |-> 0,
                         exit |-> "none"]
            /\ UNCHANGED play_ret
       ELSE /\ play_pc' = "idle"
            /\ scope' = [owner |-> "play", entered |-> FALSE, stops |-> 0,
                         exit |-> "none"]
            /\ play_ret' = [exc |-> start_exc]
    /\ UNCHANGED <<alg_vars, src_width, src_fill, src_sizes, src_cnt, src_bytes,
                   src_done, src_hist, ev_vars, squelch_level,
                   squelch_triggered, recent_chunks, prefix_samples, src_stops,
                   gc_pc, gc_pulls, gc_chunk, gc_ret, even_cnt, out_idx,
                   cfg_vars, cal_vars>>

\* the end of the body of play(), whose rounds are get_chunk calls made
\* through self._source.chunks (a call that finds the stream ended ends the
\* `async for`; when the stream had ended before, that call changes
\* nothing), and __aexit__: the detector's stop()
play_leave ==
    /\ play_pc = "body"
    /\ gc_pc = "idle"
    /\ \E kind \in ExitKinds \ {"return"} :
         /\ kind = "eos" => (src_done /\ gc_ret.exc = "StopAsyncIteration")
         /\ IF aexit_stops(kind)
            THEN /\ src_running' = FALSE
                 /\ src_stops' = src_stops + 1
                 /\ running' = FALSE
                 /\ life_calls' = life_calls + 1
                 /\ life_ret' = [op |-> "stop", exc |-> "none"]
                 /\ scope' = [scope EXCEPT !.stops = @ + 1, !.exit = kind]
            ELSE /\ scope' = [scope EXCEPT !.exit = kind]
                 /\ UNCHANGED <<src_running, src_stops, running, life_calls,
                                life_ret>>
         /\ play_ret' = [exc |-> exit_exc(kind)]
    /\ play_pc' = "idle"
    /\ UNCHANGED <<alg_vars, src_vars, ev_vars, squelch_level,
                   squelch_triggered, recent_chunks, prefix_samples, src_starts,
                   gc_pc, gc_pulls, gc_chunk, gc_ret, even_cnt, out_idx,
                   cfg_vars, cal_vars>>

CfgIdle ==
    /\ sample_size = EvenChunkSize
    /\ src_openable = TRUE

----------------------------------------------------------------------------
(* Specifications *)

\* the chunk algebra on every small chunk and offset
InitAlgebra ==
    /\ alg_chunk \in AlgChunks
    /\ alg_offset \in AlgOffsets
    /\ alg_pc = "ready"
    /\ alg_split = <<>>
    /\ alg_merged = <<>>
    /\ alg_exc = "none"
    /\ SrcIdle
    /\ EvIdle
    /\ DetIdle
    /\ CfgIdle
    /\ CalIdle
    /\ ScopeIdle

NextAlgebra == alg_do_split \/ alg_do_merge

SpecAlgebra == InitAlgebra /\ [][NextAlgebra]_vars

\* an EvenChunkIterator over a source: either small chunks whose bytes are
\* all different, or WaveSource's default chunks under the detector's window
Init ==
    /\ AlgIdle
    /\ \/ /\ src_fill = "ids"
          /\ src_sizes = 1..MaxSamples
          /\ src_width \in Widths
          /\ chunk_size \in 1..MaxChunkSize
       \/ /\ src_fill = "const"
          /\ src_sizes = {WaveChunkFrames}
          /\ src_width = 2
          /\ chunk_size = EvenChunkSize
    /\ src_cnt = 0
    /\ src_bytes = 0
    /\ src_done = FALSE
    /\ src_hist = <<>>
    /\ cur_chunk = <<>>
    /\ ev_hist = <<>>
    /\ DetIdle
    /\ CfgIdle
    /\ CalIdle
    /\ ScopeIdle

Next == next_chunk

Spec == Init /\ [][Next]_vars

\* the detector's variables at construction, but for squelch_level and
\* prefix_samples, which are configured
DetInit ==
    /\ squelch_triggered = FALSE
    /\ recent_chunks = <<>>
    /\ running = FALSE
    /\ src_running = FALSE
    /\ src_starts = 0
    /\ src_stops = 0
    /\ life_calls = 0
    /\ life_ret = [op |-> "none", exc |-> "none"]
    /\ gc_pc = "idle"
    /\ gc_pulls = 0
    /\ gc_chunk = <<>>
    /\ gc_ret = [exc |-> "none", ret |-> <<>>]
    /\ even_cnt = 0
    /\ out_idx = <<>>

\* the source and the detector's iterator at construction
DetSourceInit ==
    /\ AlgIdle
    /\ src_fill = "amp"
    /\ src_width \in Widths
    /\ src_cnt = 0
    /\ src_bytes = 0
    /\ src_done = FALSE
    /\ src_hist = <<>>
    /\ chunk_size = EvenChunkSize
    /\ cur_chunk = <<>>
    /\ ev_hist = <<>>

\* the data path of a SquelchedSource with a configured squelch_level, over
\* a source of constant-amplitude chunks, all of a whole window, all of half
\* a window or all of a window and a half
InitSquelch ==
    /\ DetSourceInit
    /\ src_sizes \in {{EvenChunkSize}, {EvenChunkSize \div 2},
                      {EvenChunkSize + EvenChunkSize \div 2}}
    /\ squelch_level \in {<<l>> : l \in SquelchLevels(src_width)}
    /\ prefix_samples \in 1..MaxPrefix
    /\ DetInit
    /\ CfgIdle
    /\ CalIdle
    /\ ScopeIdle

NextSquelch == get_chunk

SpecSquelch == InitSquelch /\ [][NextSquelch]_vars

\* the lifecycle of a SquelchedSource with the default lookback, with or
\* without a squelch_level, over a source of whole-window 16-bit chunks
InitLifecycle ==
    /\ DetSourceInit
    /\ src_width = SampleWidth
    /\ src_sizes = {EvenChunkSize}
    /\ squelch_level \in {<<>>} \cup {<<l>> : l \in SquelchLevels(src_width)}
    /\ prefix_samples = DefaultPrefix
    /\ DetInit
    /\ sample_size = EvenChunkSize
    /\ src_openable \in BOOLEAN
    /\ CalIdle
    /\ ScopeIdle

NextLifecycle == start \/ stop \/ get_chunk

SpecLifecycle == InitLifecycle /\ [][NextLifecycle]_vars

\* calibration alone, on a detector without a level: over a source of
\* one-sample 16-bit chunks with a window of one sample, or over a source of
\* constant-amplitude chunks of a whole or half a window
InitCalib ==
    /\ AlgIdle
    /\ \/ /\ src_fill = "tone"
          /\ src_width = SampleWidth
          /\ src_sizes = {1}
          /\ sample_size = 1
       \/ /\ src_fill = "flat"
          /\ src_width \in Widths
          /\ src_sizes \in {{EvenChunkSize}, {EvenChunkSize \div 2}}
          /\ sample_size \in {EvenChunkSize, EvenChunkSize \div 2}
    /\ src_cnt = 0
    /\ src_bytes = 0
    /\ src_done = FALSE
    /\ src_hist = <<>>
    /\ chunk_size = EvenChunkSize
    /\ cur_chunk = <<>>
    /\ ev_hist = <<>>
    /\ squelch_level = <<>>
    /\ prefix_samples = DefaultPrefix
    /\ DetInit
    /\ src_openable = TRUE
    /\ CalIdle
    /\ ScopeIdle

NextCalib == cal_enter \/ cal_pull \/ cal_leave

SpecCalib == InitCalib /\ [][NextCalib]_vars

\* a detector with the default lookback and a window of 1600 or 800
\* samples, with or without a level, over a loud source of 1600-sample
\* 16-bit chunks that may fail to open
InitStage ==
    /\ AlgIdle
    /\ src_fill = "loud"
    /\ src_width = SampleWidth
    /\ src_sizes = {EvenChunkSize}
    /\ src_cnt = 0
    /\ src_bytes = 0
    /\ src_done = FALSE
    /\ src_hist = <<>>
    /\ chunk_size = EvenChunkSize
    /\ cur_chunk = <<>>
    /\ ev_hist = <<>>
    /\ squelch_level \in {<<>>} \cup {<<l>> : l \in SquelchLevels(src_width)}
    /\ prefix_samples = DefaultPrefix
    /\ DetInit
    /\ sample_size \in {EvenChunkSize, EvenChunkSize \div 2}
    /\ src_openable \in BOOLEAN
    /\ CalIdle
    /\ ScopeIdle

\* the detector's lifecycle, get_chunk and calibration
NextStage ==
    \/ start
    \/ stop
    \/ get_chunk
    \/ cal_enter
    \/ cal_pull
    \/ cal_leave

SpecStage == InitStage /\ [][NextStage]_vars

\* the scopes opened with listen(): calibration, and AudioPlayer.play over
\* the detector
NextScope ==
    \/ cal_enter
    \/ cal_pull
    \/ cal_leave
    \/ play_enter
    \/ get_chunk
    \/ play_leave

InitScope == InitStage /\ sample_size = EvenChunkSize

SpecScope == InitScope /\ [][NextScope]_vars

----------------------------------------------------------------------------
(* Histories read by the properties *)

\* the chunks returned by the iterator, in emission order
OutChunks ==
    LET ok == SelectSeq(ev_hist, LAMBDA h : h.exc = "none")
    IN  [i \in 1..Len(ok) |-> ok[i].ret[1]]

OutAudio == JoinAudio(OutChunks)
InAudio  == JoinAudio(src_hist)

SrcSizes == [i \in 1..Len(src_hist) |-> chunk_sample_cnt(src_hist[i])]

ValidOffset == 0 <= alg_offset /\ alg_offset <= chunk_sample_cnt(alg_chunk)

\* the byte values of a byte string
ByteValues(a) == {a[i][1] : i \in 1..Len(a)}

\* 0.8 * level <= r <= level
InBand(r, level) == 8 * level <= 10 * r /\ r <= level

RECURSIVE SumByteLen(_)
SumByteLen(chunks) ==
    IF chunks = <<>> THEN 0
    ELSE BytesLen(chunks[1].audio) + SumByteLen(Tail(chunks))

----------------------------------------------------------------------------
(* Properties *)

\* C1 (lossless re-windowing): the audio of the chunks the iterator has
\* returned, concatenated in emission order, is a prefix of the concatenated
\* input audio, and once the source is exhausted it is that input truncated
\* to the largest multiple of chunk_size samples.
C1_Lossless ==
    /\ OutAudio = BytesTake(InAudio, BytesLen(OutAudio))
    /\ src_done =>
         BytesLen(OutAudio) =
            (((BytesLen(InAudio) \div src_width) \div chunk_size)
                * chunk_size) * src_width

\* C2 (exact sizing): every completed pull either returned a chunk of
\* exactly chunk_size samples or signalled end-of-stream and returned nothing.
C2_ExactSizing ==
    \A i \in 1..Len(ev_hist) :
        \/ /\ ev_hist[i].exc = "none"
           /\ Len(ev_hist[i].ret) = 1
           /\ chunk_sample_cnt(ev_hist[i].ret[1]) = chunk_size
           /\ BytesLen(ev_hist[i].ret[1].audio) = chunk_size * src_width
        \/ /\ ev_hist[i].exc = "StopIteration"
           /\ ev_hist[i].ret = <<>>

\* C2 witness: a source chunk larger than chunk_size was pulled, a pull left
\* a carry, and a later pull that started from a carry returned a chunk.
C2_Witness ==
    /\ \E k \in 1..Len(src_hist) : chunk_sample_cnt(src_hist[k]) > chunk_size
    /\ \E i, j \in 1..Len(ev_hist) :
         /\ i < j
         /\ ev_hist[i].carry # <<>>
         /\ ev_hist[j].had_carry
         /\ ev_hist[j].exc = "none"

\* C3 (split/merge inverse): for a valid offset, merging the two parts of
\* split_chunk, first then second, gives back the audio of the chunk.
C3_SplitMergeInverse ==
    (alg_pc = "merged" /\ ValidOffset)
        => alg_merged[1].audio = alg_chunk.audio

\* C4 (split partition): for a valid offset on a chunk of n samples the
\* first part holds samples [0, n - offset), the second holds
\* [n - offset, n) and so has offset samples, no byte is in both parts, and
\* both parts keep start_time, width and freq.
C4_SplitPartition ==
    (alg_pc \in {"split", "merged"} /\ ValidOffset)
        => LET n     == chunk_sample_cnt(alg_chunk)
               cut   == (n - alg_offset) * alg_chunk.width
               first == alg_split[1]
               second == alg_split[2]
           IN  /\ first.audio = BytesTake(alg_chunk.audio, cut)
               /\ second.audio = BytesDrop(alg_chunk.audio, cut)
               /\ chunk_sample_cnt(second) = alg_offset
               /\ ByteValues(first.audio) \cap ByteValues(second.audio) = {}
               /\ \A p \in {first, second} :
                    /\ p.start_time = alg_chunk.start_time
                    /\ p.width = alg_chunk.width
                    /\ p.freq = alg_chunk.freq

\* C5 (example): chunk_size 1600 over a source that yields exactly three
\* chunks of 1000 samples (width 2, freq 16000) and then ends: two chunks of
\* 1600 samples are returned, 400 samples are carried after the second, and
\* the third pull signals end-of-stream.
C5_Example ==
    ( /\ chunk_size = EvenChunkSize
      /\ src_width = SampleWidth
      /\ SrcSizes = <<WaveChunkFrames, WaveChunkFrames, WaveChunkFrames>>
      /\ \A k \in 1..Len(src_hist) : src_hist[k].freq = MicRate
      /\ src_done )
        => /\ Len(ev_hist) >= 3
           /\ ev_hist[1].exc = "none"
           /\ chunk_sample_cnt(ev_hist[1].ret[1]) = EvenChunkSize
           /\ ev_hist[2].exc = "none"
           /\ chunk_sample_cnt(ev_hist[2].ret[1]) = EvenChunkSize
           /\ Len(ev_hist[2].carry) = 1
           /\ chunk_sample_cnt(ev_hist[2].carry[1]) = 400
           /\ ev_hist[3].exc = "StopIteration"

\* C6 (exhaustion mid-accumulation): a pull during which the source is
\* exhausted signals end-of-stream, returns no chunk and leaves the carry
\* slot empty; every later pull signals end-of-stream again; no pull ever
\* returns a chunk shorter than chunk_size.
C6_ExhaustionDiscards ==
    /\ \A i \in 1..Len(ev_hist) :
         ev_hist[i].exc = "StopIteration"
            => /\ ev_hist[i].ret = <<>>
               /\ ev_hist[i].carry = <<>>
               /\ \A j \in i..Len(ev_hist) :
                    /\ ev_hist[j].exc = "StopIteration"
                    /\ ev_hist[j].ret = <<>>
    /\ \A i \in 1..Len(ev_hist) :
         ev_hist[i].ret # <<>>
            => chunk_sample_cnt(ev_hist[i].ret[1]) >= chunk_size
    /\ src_done =>
         /\ cur_chunk = <<>>
         /\ ev_hist # <<>>
         /\ ev_hist[Len(ev_hist)].exc = "StopIteration"

\* C6 witness: the source ran out during a pull that had already
\* accumulated samples (from the carry or from chunks pulled in the call),
\* and a later pull was made.
C6_Witness ==
    \E i \in 1..Len(ev_hist) :
        /\ ev_hist[i].exc = "StopIteration"
        /\ ev_hist[i].had_carry \/ ev_hist[i].pulled > 0
        /\ i < Len(ev_hist)

\* C7 (hysteresis stability): an iteration of get_chunk that pulls a chunk
\* whose RMS lies between 0.8 * squelch_level and squelch_level, both
\* included, leaves the detector in the state it was in; if that state is
\* Active, the iteration is the first of its call and the call returns the
\* chunk just pulled.
C7_HysteresisStability ==
    [][ ( /\ even_cnt' = even_cnt + 1
          /\ squelch_level # <<>>
          /\ InBand(Rms(gc_chunk'[1].audio, gc_chunk'[1].width),
                    squelch_level[1]) )
        => /\ squelch_triggered' = squelch_triggered
           /\ squelch_triggered
                => /\ gc_pc' = "idle"
                   /\ gc_ret' = [exc |-> "none", ret |-> gc_chunk']
                   /\ gc_pulls' = 1
      ]_vars

\* C7 witness: the detector is Active after a call that returned the chunk
\* it pulled in one pull, and the last two chunks pulled both lie in the
\* band, with a lookback buffer of at least three chunks.
C7_Witness ==
    /\ squelch_triggered
    /\ squelch_level # <<>>
    /\ Len(recent_chunks) >= 3
    /\ \A i \in (Len(recent_chunks) - 1)..Len(recent_chunks) :
         InBand(Rms(recent_chunks[i].audio, recent_chunks[i].width),
                squelch_level[1])
    /\ gc_pulls = 1
    /\ gc_ret = [exc |-> "none", ret |-> gc_chunk]

\* C8 (lookback inclusion): the iteration of get_chunk that takes the
\* detector from Silence to Active returns the merge, oldest first, of the
\* chunks in the lookback buffer, which holds the chunk just pulled last
\* after the newest chunks it held before; the byte length of the returned
\* chunk is the sum of the byte lengths of the buffered chunks.
C8_LookbackInclusion ==
    [][ (~squelch_triggered /\ squelch_triggered')
        => LET n == Len(recent_chunks')
           IN  /\ gc_ret'.exc = "none"
               /\ Len(gc_ret'.ret) = 1
               /\ gc_ret'.ret[1].audio = JoinAudio(recent_chunks')
               /\ BytesLen(gc_ret'.ret[1].audio) = SumByteLen(recent_chunks')
               /\ n = Min(prefix_samples, Len(recent_chunks) + 1)
               /\ recent_chunks'[n] = gc_chunk'[1]
               /\ \A i \in 1..(n - 1) :
                    recent_chunks'[i] =
                        recent_chunks[Len(recent_chunks) - (n - 1) + i]
      ]_vars

\* C8 witness: the detector has just triggered with a full lookback buffer
\* of at least two chunks from which an older chunk has been evicted, and
\* the call returned more than the chunk just pulled.
C8_Witness ==
    /\ squelch_triggered
    /\ prefix_samples >= 2
    /\ Len(recent_chunks) = prefix_samples
    /\ even_cnt > prefix_samples
    /\ gc_ret.exc = "none"
    /\ gc_ret.ret # gc_chunk
    /\ gc_ret.ret[1].audio = JoinAudio(recent_chunks)

C9_DetectorOrder ==
    \A i \in 1..(Len(out_idx) - 1) : out_idx[i] <= out_idx[i + 1]

\* C10 (start needs a level): a start() call on a detector whose
\* squelch_level is None ends with the assertion error and changes nothing:
\* the detector is not marked running and the inner source's start() is not
\* called.
C10_StartNeedsLevel ==
    [][ ( /\ life_calls' = life_calls + 1
          /\ life_ret'.op = "start"
          /\ squelch_level = <<>> )
        => /\ life_ret'.exc = "AssertionError"
           /\ ~running'
           /\ running' = running
           /\ src_running' = src_running
           /\ src_starts' = src_starts
           /\ UNCHANGED <<squelch_level, squelch_triggered, recent_chunks,
                          gc_pc, gc_ret, cur_chunk, src_stops>>
      ]_vars

\* C10 witness: start() was called on a detector without a level and
\* failed, after the detector had already pulled a chunk.
C10_Witness ==
    /\ squelch_level = <<>>
    /\ life_ret = [op |-> "start", exc |-> "AssertionError"]
    /\ even_cnt >= 1
    /\ ~running
    /\ src_starts = 0

\* C11 (listen scopes): for the scope inside detect_squelch_level and the
\* one in AudioPlayer.play: when start() fails the scope is not entered and
\* stop() is not called; entering calls no stop(); leaving, however the body
\* ends, calls stop() exactly once (for play, the detector's stop(), which
\* stops the inner source and clears the detector's running mark).
C11_ListenScope ==
    [][ (scope' # scope)
        => /\ scope'.owner \in {"cal", "play"}
           /\ (scope'.exit = "none" /\ ~scope'.entered)
                => /\ scope'.stops = 0
                   /\ src_stops' = src_stops
                   /\ (IF scope'.owner = "cal" THEN cal_ret'.exc
                       ELSE play_ret'.exc) \in {"OSError", "AssertionError"}
           /\ (scope'.exit = "none" /\ scope'.entered)
                => /\ scope'.stops = 0
                   /\ src_stops' = src_stops
                   /\ src_starts' = src_starts + 1
                   /\ src_running'
           /\ (scope'.exit # "none")
                => /\ scope.entered /\ scope.exit = "none" /\ scope.stops = 0
                   /\ scope'.stops = 1
                   /\ src_stops' = src_stops + 1
                   /\ ~src_running'
                   /\ scope'.owner = "play"
                        => (~running' /\ life_ret' = [op |-> "stop", exc |-> "none"])
      ]_vars

\* C11 witness: a play() scope was left because a write or a pull raised,
\* with one stop(), after a calibration scope had been opened in the same run.
C11_Witness ==
    /\ scope = [owner |-> "play", entered |-> TRUE, stops |-> 1, exit |-> "error"]
    /\ cal_cnt > 0
    /\ play_ret.exc = "OSError"
    /\ src_stops >= 2

\* the rank floor(threshold * n), without division
IsFloorRank(k, threshold, n) ==
    /\ k * threshold[2] <= threshold[1] * n
    /\ threshold[1] * n < (k + 1) * threshold[2]

\* v is the element at zero-based rank k of vals sorted ascending
IsAtRank(v, vals, k) ==
    /\ \E i \in 1..Len(vals) : vals[i] = v
    /\ Cardinality({i \in 1..Len(vals) : vals[i] < v}) <= k
    /\ Cardinality({i \in 1..Len(vals) : vals[i] <= v}) > k

\* vals holds exactly the values of S, each once
HoldsEach(vals, S) ==
    /\ Len(vals) = Cardinality(S)
    /\ {vals[i] : i \in 1..Len(vals)} = S

CalMeasured ==
    /\ cal_cnt > 0
    /\ cal_pc = "idle"
    /\ scope.owner = "cal"
    /\ scope.exit \in {"return", "eos"}

\* C13 (calibration rank): a calibration that measured a non-empty list of
\* RMS values with a threshold in [0, 1) sets squelch_level to the element
\* at zero-based rank floor(threshold * count) of the values sorted
\* ascending; for the values 10, 20, 30, 40, 50 and threshold 0.8 that is 50.
C13_CalibrationRank ==
    LET vals == cal_rms_vals(cal_chunks, sample_size)
    IN  ( /\ CalMeasured
          /\ vals # <<>>
          /\ cal_threshold[1] < cal_threshold[2] )
        => /\ cal_ret.exc = "none"
           /\ squelch_level = cal_ret.level
           /\ Len(squelch_level) = 1
           /\ \E k \in 0..(Len(vals) - 1) :
                /\ IsFloorRank(k, cal_threshold, Len(vals))
                /\ IsAtRank(squelch_level[1], vals, k)
           /\ (HoldsEach(vals, {10, 20, 30, 40, 50}) /\ cal_threshold = <<8, 10>>)
                => squelch_level = <<50>>

\* C13 witness: a calibration with threshold 0.8 measured the values 10,
\* 20, 30, 40, 50, not in ascending order, and set the level 50.
C13_Witness ==
    LET vals == cal_rms_vals(cal_chunks, sample_size)
    IN  /\ CalMeasured
        /\ cal_threshold = <<8, 10>>
        /\ HoldsEach(vals, {10, 20, 30, 40, 50})
        /\ vals[1] = 50
        /\ squelch_level = <<50>>

\* C12 (one end-of-stream signal): a get_chunk call of the detector that
\* ends because the stream below is exhausted ends with the signal of a raw
\* source's get_chunk, and so also ends an iteration of .chunks as a raw
\* source's does.
C12_SameSignal ==
    (gc_pc = "idle" /\ gc_ret.exc # "none")
        => /\ gc_ret.exc = source_eos
           /\ chunks_anext_exc(gc_ret.exc) = chunks_anext_exc(source_eos)

\* C14 (split rejects a bad offset): split_chunk called with a negative
\* sample_offset, or one greater than the chunk's sample count, fails with
\* InvalidInput and returns no chunks.
C14_SplitInvalidInput ==
    (alg_pc \in {"split", "merged"} /\ ~ValidOffset)
        => /\ alg_exc = "InvalidInput"
           /\ alg_split = <<>>

\* the RMS values of the lookback buffer, oldest first
RECURSIVE RecentRms(_)
RecentRms(chunks) ==
    IF chunks = <<>> THEN <<>>
    ELSE <<Rms(chunks[1].audio, chunks[1].width)>> \o RecentRms(Tail(chunks))

\* m is the median of vals: the element at zero-based rank floor(n / 2) of
\* the values sorted ascending (for an even count, the upper of the two
\* middle values)
IsMedian(m, vals) ==
    \E k \in 0..Len(vals) :
        /\ 2 * k <= Len(vals)
        /\ Len(vals) < 2 * k + 2
        /\ IsAtRank(m, vals, k)

\* C15 (hysteresis rule): the detector starts in Silence (it is in Silence
\* as long as it has pulled no chunk); a round of
\* get_chunk that pulls a chunk leaves it Active exactly when, with m the
\* median RMS of the lookback buffer after the pull, it was Active and not
\* m < 0.8 * squelch_level, or it was in Silence and m > squelch_level;
\* nothing else changes the state.
C15_HysteresisRule ==
    [][ /\ even_cnt = 0 => ~squelch_triggered
        /\ IF even_cnt' = even_cnt + 1
           THEN \E r \in {RecentRms(recent_chunks')} :
                  \E i \in 1..Len(r) :
                      /\ IsMedian(r[i], r)
                      /\ squelch_triggered' =
                           (IF squelch_triggered
                            THEN ~(10 * r[i] < 8 * squelch_level[1])
                            ELSE r[i] > squelch_level[1])
           ELSE squelch_triggered' = squelch_triggered
      ]_vars

\* C15 witness: the detector is in Silence again after it has been Active,
\* and the last round of the Active span stayed Active with the median
\* exactly at 0.8 * squelch_level.
C15_Witness ==
    /\ ~squelch_triggered
    /\ out_idx # <<>>
    /\ \E i \in 1..Len(recent_chunks) :
         /\ RecentIdx(even_cnt, Len(recent_chunks))[i] = out_idx[Len(out_idx)]
         /\ 10 * RecentRms(recent_chunks)[i] = 8 * squelch_level[1]

\* C16 (output policy): a round that pulls a chunk and leaves the detector
\* in Silence returns nothing and the call goes on to pull again; a round
\* that leaves it Active ends the call with one chunk, exactly the chunk
\* just pulled when the detector was Active already; a call ends only with a
\* chunk, in state Active, or with the end of the stream.
C16_OutputPolicy ==
    [][ /\ (even_cnt' = even_cnt + 1 /\ ~squelch_triggered')
             => /\ gc_pc' = "loop"
                /\ gc_ret' = gc_ret
                /\ out_idx' = out_idx
        /\ (even_cnt' = even_cnt + 1 /\ squelch_triggered')
             => /\ gc_pc' = "idle"
                /\ gc_ret'.exc = "none"
                /\ Len(gc_ret'.ret) = 1
        /\ (even_cnt' = even_cnt + 1 /\ squelch_triggered /\ squelch_triggered')
             => /\ gc_ret'.ret = gc_chunk'
                /\ out_idx' = Append(out_idx, even_cnt')
        /\ gc_pc' = "idle"
             => \/ /\ gc_ret'.exc = "none"
                   /\ squelch_triggered'
                   /\ even_cnt' = even_cnt + 1
                \/ /\ gc_ret'.exc = chunks_anext_exc(source_eos)
                   /\ gc_ret'.ret = <<>>
                   /\ src_done'
                   /\ even_cnt' = even_cnt
      ]_vars

\* C16 witness: with a lookback buffer of at least two chunks, a call that
\* needed more than one round has returned, a later call returned exactly
\* the chunk it pulled, and some pulled chunk was never returned.
C16_Witness ==
    /\ prefix_samples >= 2
    /\ Len(recent_chunks) >= 2
    /\ squelch_triggered
    /\ gc_pc = "idle"
    /\ gc_pulls = 1
    /\ gc_ret = [exc |-> "none", ret |-> gc_chunk]
    /\ Len(out_idx) >= 3
    /\ out_idx[Len(out_idx)] = even_cnt
    /\ \E i \in 1..even_cnt : \A j \in 1..Len(out_idx) : out_idx[j] # i

\* C17 (median against one spike): in Silence, with the lookback buffer
\* full at a capacity of at least 2, a round after which exactly one
\* buffered chunk has an RMS above squelch_level, and every other one an RMS
\* below it, leaves the detector in Silence.
C17_SpikeRobust ==
    [][ ( /\ even_cnt' = even_cnt + 1
          /\ ~squelch_triggered
          /\ prefix_samples >= 2
          /\ Len(recent_chunks') = prefix_samples
          /\ \E r \in {RecentRms(recent_chunks')} :
                 /\ Cardinality({i \in 1..Len(r) : r[i] > squelch_level[1]}) = 1
                 /\ \A i \in 1..Len(r) :
                      r[i] > squelch_level[1] \/ r[i] < squelch_level[1] )
        => ~squelch_triggered'
      ]_vars

\* C18 (nothing emitted twice): no chunk of the resegmented stream is in
\* more than one value returned by get_chunk.
C18_NoDuplicateOutput ==
    \A i, j \in 1..Len(out_idx) : (i # j) => (out_idx[i] # out_idx[j])

\* C19 (one window size): every chunk get_chunk pulls from its
\* EvenChunkIterator has sample_size samples, as every chunk a calibration
\* has collected has.
C19_OneWindow ==
    /\ \A i \in 1..Len(cal_chunks) : chunk_sample_cnt(cal_chunks[i]) = sample_size
    /\ (squelch_level # <<>> /\ gc_chunk # <<>>)
         => chunk_sample_cnt(gc_chunk[1]) = sample_size

\* C20 (stage and source in step): while no start(), stop() or calibration
\* is in progress, a detector marked running has a running inner source.
C20_RunningInStep ==
    (cal_pc = "idle" /\ play_pc = "idle") => (running => src_running)

=============================================================================
